---------------------------- MODULE Spec2Model ----------------------------
(***************************************************************************)
(* Migration of Maud kinetic-model documents and prior tables from the old *)
(* schema to the new one (update_maud).                                    *)
(*                                                                         *)
(* Python strings whose characters matter (identifiers, mechanism names)   *)
(* are sequences of one-character strings, so that str.replace, slicing,   *)
(* startswith and the regular expressions are computed character by        *)
(* character.  Tags that the code only compares for equality               *)
(* (modifier_type, the parameter column) are TLA+ strings.  A Python dict  *)
(* is the sequence of its items [k, v] in insertion order, keys distinct.  *)
(***************************************************************************)
EXTENDS Integers, Sequences, FiniteSets, TLC

VARIABLES
    pc,          \* position of the run
    old_model,   \* the ModelPrev document given to update_model
    new_model,   \* outcome of update_model: [status, model]
    new_toml,    \* the document written by write_new_model, as toml.load returns it
    reread,      \* outcome of read_old_maud on the written document
    priors_df,   \* the old priors table given to update_priors
    model,       \* the ModelNew given to update_priors
    priors_out,  \* outcome of update_priors: [status, df]
    data_dir,    \* what cli_entry finds in the source directory
    outdir       \* the files present in the output directory

vars ==
    <<pc, old_model, new_model, new_toml, reread, priors_df, model, priors_out,
      data_dir, outdir>>

(***************************************************************************)
(* Bounds of the explored inputs.                                          *)
(***************************************************************************)
MaxReactions == 2
MaxEnzymes == 2
MaxModifiers == 2
MaxMetabolites == 2
MaxRows == 3

(***************************************************************************)
(* Python values.                                                          *)
(***************************************************************************)
ID_SEPARATOR == "_"

\* None where a str is expected (Optional[str]); no string equals it.
PyNone == <<"<None>">>

\* NaN: what pandas holds in an empty cell of a column of strings.
NaN == <<"<NaN>">>

LowerCase ==
    {"a", "b", "c", "d", "e", "f", "g", "h", "i", "j", "k", "l", "m",
     "n", "o", "p", "q", "r", "s", "t", "u", "v", "w", "x", "y", "z"}

PyDict(d) == [type |-> "dict", value |-> d]
PyFloat(n) == [type |-> "float", value |-> n]

\* a != b: values of different types are never equal.
PyNe(a, b) == a.type # b.type \/ a.value # b.value

\* s.replace("_", "")
RECURSIVE replace_sep(_)
replace_sep(s) ==
    IF s = <<>> THEN <<>>
    ELSE IF Head(s) = ID_SEPARATOR THEN replace_sep(Tail(s))
    ELSE <<Head(s)>> \o replace_sep(Tail(s))

\* s[:-2]
DropLastTwo(s) == IF Len(s) <= 2 THEN <<>> ELSE SubSeq(s, 1, Len(s) - 2)

\* s.startswith(prefix)
startswith(s, prefix) ==
    /\ Len(s) >= Len(prefix)
    /\ SubSeq(s, 1, Len(prefix)) = prefix

\* UNDER_PAT = _(?![a-z]$) : a separator not followed by one final lowercase
\* letter.  UNDER_PAT.sub("", s) removes every such separator.
UNDER_PAT_matches(s, i) ==
    /\ s[i] = ID_SEPARATOR
    /\ ~(i = Len(s) - 1 /\ s[Len(s)] \in LowerCase)

RECURSIVE UNDER_PAT_sub_from(_, _)
UNDER_PAT_sub_from(s, i) ==
    IF i > Len(s) THEN <<>>
    ELSE IF UNDER_PAT_matches(s, i) THEN UNDER_PAT_sub_from(s, i + 1)
    ELSE <<s[i]>> \o UNDER_PAT_sub_from(s, i + 1)

UNDER_PAT_sub(s) == UNDER_PAT_sub_from(s, 1)

\* d[k] = v on a dict: a present key keeps its place and takes the new value.
DictSet(d, k, v) ==
    IF \E i \in DOMAIN d : d[i].k = k
    THEN [i \in DOMAIN d |-> IF d[i].k = k THEN [k |-> k, v |-> v] ELSE d[i]]
    ELSE Append(d, [k |-> k, v |-> v])

(***************************************************************************)
(* New-schema records (data_model) and their validators.                   *)
(***************************************************************************)
REVERSIBLE_MICHAELIS_MENTEN == 1
IRREVERSIBLE_MICHAELIS_MENTEN == 2
DRAIN == 3
ACTIVATION == 1
INHIBITION == 2

ReactionMechanismName(m) ==
    CASE m = REVERSIBLE_MICHAELIS_MENTEN -> "REVERSIBLE_MICHAELIS_MENTEN"
      [] m = IRREVERSIBLE_MICHAELIS_MENTEN -> "IRREVERSIBLE_MICHAELIS_MENTEN"
      [] m = DRAIN -> "DRAIN"

ModificationTypeName(m) ==
    CASE m = ACTIVATION -> "ACTIVATION"
      [] m = INHIBITION -> "INHIBITION"

\* assert ID_SEPARATOR not in v
id_must_not_contain_seps(v) == \A i \in DOMAIN v : v[i] # ID_SEPARATOR

\* assert v > 0
subunits_must_be_positive(v) == v > 0

\* assert v != 0, where v is the whole stoichiometry dict (the validator is
\* not declared each_item), so a dict is compared with a number.
stoichiometry_must_be_non_zero(v) == PyNe(PyDict(v), PyFloat(0))

\* A constructor returns [ok, value]; ok = FALSE is a ValidationError.
Metabolite(id, name, inchi_key) ==
    [ok |-> id_must_not_contain_seps(id),
     value |-> [id |-> id, name |-> name, inchi_key |-> inchi_key]]

Enzyme(id, name, subunits) ==
    [ok |-> id_must_not_contain_seps(id) /\ subunits_must_be_positive(subunits),
     value |-> [id |-> id, name |-> name, subunits |-> subunits]]

Reaction(id, name, mechanism, stoichiometry, water_stoichiometry, transported_charge) ==
    [ok |-> id_must_not_contain_seps(id) /\ stoichiometry_must_be_non_zero(stoichiometry),
     value |-> [id |-> id, name |-> name, mechanism |-> mechanism,
                stoichiometry |-> stoichiometry,
                water_stoichiometry |-> water_stoichiometry,
                transported_charge |-> transported_charge]]

MetaboliteInCompartment(metabolite_id, compartment_id, balanced) ==
    [metabolite_id |-> metabolite_id, compartment_id |-> compartment_id,
     balanced |-> balanced]

EnzymeReaction(enzyme_id, reaction_id) ==
    [enzyme_id |-> enzyme_id, reaction_id |-> reaction_id]

Allostery(enzyme_id, metabolite_id, compartment_id, modification_type) ==
    [enzyme_id |-> enzyme_id, metabolite_id |-> metabolite_id,
     compartment_id |-> compartment_id, modification_type |-> modification_type]

CompetitiveInhibition(enzyme_id, reaction_id, metabolite_id, compartment_id) ==
    [enzyme_id |-> enzyme_id, reaction_id |-> reaction_id,
     metabolite_id |-> metabolite_id, compartment_id |-> compartment_id]


(***************************************************************************)
(* update_model: translate an old model to a new model.                    *)
(* The accumulator holds the lists the function builds; status becomes     *)
(* "ValidationError" when a constructor raises, which ends the call.       *)
(***************************************************************************)
DEFAULT_COMPARTMENT == <<"c">>

EmptyAcc ==
    [status |-> "ok", reactions |-> <<>>, enzymes |-> <<>>,
     enzyme_reactions |-> <<>>, allosteries |-> <<>>, comp_inhibitions |-> <<>>,
     metabolites |-> <<>>, comp_metabolites |-> <<>>]

\* mutant: the compartment suffix is not cut off before the separators go
modifier_metabolite_id_no_slice(mic_id) == replace_sep(mic_id)

\* modifier.mic_id[:-2].replace("_", "")
modifier_metabolite_id(mic_id) == replace_sep(DropLastTwo(mic_id))

\* mutant: "reversible" is looked for anywhere in the mechanism string
mechanism_of_contains(reac) ==
    IF \E i \in 0..Len(reac.mechanism) :
           startswith(SubSeq(reac.mechanism, i + 1, Len(reac.mechanism)),
                      <<"r", "e", "v", "e", "r", "s", "i", "b", "l", "e">>)
    THEN REVERSIBLE_MICHAELIS_MENTEN
    ELSE IRREVERSIBLE_MICHAELIS_MENTEN

\* md.ReactionMechanism chosen from the old mechanism string
mechanism_of(reac) ==
    IF startswith(reac.mechanism, <<"r", "e", "v", "e", "r", "s", "i", "b", "l", "e">>)
    THEN REVERSIBLE_MICHAELIS_MENTEN
    ELSE IRREVERSIBLE_MICHAELIS_MENTEN

\* {UNDER_PAT.sub("", k): v for k, v in reac.stoichiometry.items()}
RECURSIVE stoichiometry_comprehension(_, _)
stoichiometry_comprehension(items, d) ==
    IF items = <<>> THEN d
    ELSE stoichiometry_comprehension(
             Tail(items), DictSet(d, UNDER_PAT_sub(Head(items).k), Head(items).v))

\* mutant: the compartment is read from the last character of mic_id
modifier_step_suffix_compartment(acc, modifier, enz_id, reac_id) ==
    LET comp == IF modifier.mic_id = <<>> THEN DEFAULT_COMPARTMENT
                ELSE <<modifier.mic_id[Len(modifier.mic_id)]>>
    IN IF modifier.modifier_type = "competitive_inhibitor"
       THEN [acc EXCEPT !.comp_inhibitions =
                 Append(@, CompetitiveInhibition(
                               enz_id, reac_id,
                               modifier_metabolite_id(modifier.mic_id), comp))]
       ELSE [acc EXCEPT !.allosteries =
                 Append(@, Allostery(
                               enz_id, modifier_metabolite_id(modifier.mic_id), comp,
                               IF modifier.modifier_type = "allosteric_inhibitor"
                               THEN INHIBITION ELSE ACTIVATION))]

\* body of "for modifier in enz.modifier"
modifier_step(acc, modifier, enz_id, reac_id) ==
    IF modifier.modifier_type = "competitive_inhibitor"
    THEN [acc EXCEPT !.comp_inhibitions =
              Append(@, CompetitiveInhibition(
                            enz_id, reac_id,
                            modifier_metabolite_id(modifier.mic_id),
                            DEFAULT_COMPARTMENT))]
    ELSE LET mod_type ==
                 IF modifier.modifier_type = "allosteric_inhibitor"
                 THEN INHIBITION
                 ELSE ACTIVATION
         IN [acc EXCEPT !.allosteries =
                 Append(@, Allostery(
                               enz_id,
                               modifier_metabolite_id(modifier.mic_id),
                               DEFAULT_COMPARTMENT, mod_type))]

RECURSIVE modifier_loop(_, _, _, _)
modifier_loop(acc, modifiers, enz_id, reac_id) ==
    IF modifiers = <<>> THEN acc
    ELSE modifier_loop(modifier_step(acc, Head(modifiers), enz_id, reac_id),
                       Tail(modifiers), enz_id, reac_id)

\* body of "for enz in reac.enzyme"; enz.modifier is {} for None, {list} otherwise
enzyme_step(acc, enz, reac_id) ==
    LET enz_id == replace_sep(enz.id)
        e == Enzyme(enz_id, enz.name, enz.subunits)
    IN IF ~e.ok THEN [acc EXCEPT !.status = "ValidationError"]
       ELSE LET acc1 == [acc EXCEPT
                            !.enzymes = Append(@, e.value),
                            !.enzyme_reactions =
                                Append(@, EnzymeReaction(enz_id, reac_id))]
            IN IF enz.modifier = {} THEN acc1
               ELSE modifier_loop(acc1, CHOOSE l \in enz.modifier : TRUE,
                                  enz_id, reac_id)

RECURSIVE enzyme_loop(_, _, _)
enzyme_loop(acc, enzymes, reac_id) ==
    IF acc.status # "ok" \/ enzymes = <<>> THEN acc
    ELSE enzyme_loop(enzyme_step(acc, Head(enzymes), reac_id), Tail(enzymes), reac_id)

\* body of "for reac in old_model.reaction"
reaction_step(acc, reac) ==
    LET reac_id == replace_sep(reac.id)
        r == Reaction(reac_id, reac.name, mechanism_of(reac),
                      stoichiometry_comprehension(reac.stoichiometry, <<>>),
                      reac.water_stoichiometry, reac.transported_charge)
    IN IF ~r.ok THEN [acc EXCEPT !.status = "ValidationError"]
       ELSE enzyme_loop([acc EXCEPT !.reactions = Append(@, r.value)],
                        reac.enzyme, reac_id)

\* mutant: the reactions are taken from the last to the first
RECURSIVE reaction_loop_reversed(_, _)
reaction_loop_reversed(acc, reactions) ==
    IF acc.status # "ok" \/ reactions = <<>> THEN acc
    ELSE reaction_loop_reversed(reaction_step(acc, reactions[Len(reactions)]),
                                SubSeq(reactions, 1, Len(reactions) - 1))

RECURSIVE reaction_loop(_, _)
reaction_loop(acc, reactions) ==
    IF acc.status # "ok" \/ reactions = <<>> THEN acc
    ELSE reaction_loop(reaction_step(acc, Head(reactions)), Tail(reactions))

\* not any(met_id == met.id for met in metabolites)
metabolite_is_new(met_id, metabolites) ==
    ~\E i \in DOMAIN metabolites : met_id = metabolites[i].id

\* body of "for met in old_model.metabolite"
metabolite_step(acc, met) ==
    LET met_id == replace_sep(met.id)
        m == Metabolite(met_id, met.name, met.metabolite_inchi_key)
        acc1 == IF metabolite_is_new(met_id, acc.metabolites)
                THEN IF m.ok
                     THEN [acc EXCEPT !.metabolites = Append(@, m.value)]
                     ELSE [acc EXCEPT !.status = "ValidationError"]
                ELSE acc
    IN IF acc1.status # "ok" THEN acc1
       ELSE [acc1 EXCEPT !.comp_metabolites =
                 Append(@, MetaboliteInCompartment(met_id, met.compartment, met.balanced))]

RECURSIVE metabolite_loop(_, _)
metabolite_loop(acc, mets) ==
    IF acc.status # "ok" \/ mets = <<>> THEN acc
    ELSE metabolite_loop(metabolite_step(acc, Head(mets)), Tail(mets))

ModelNew(compartment, reaction, enzyme, enzyme_reaction, metabolite, metabolite_in_compartment, allostery, competitive_inhibition) ==
    [compartment |-> compartment, reaction |-> reaction, enzyme |-> enzyme,
     enzyme_reaction |-> enzyme_reaction, metabolite |-> metabolite,
     metabolite_in_compartment |-> metabolite_in_compartment,
     allostery |-> allostery, competitive_inhibition |-> competitive_inhibition]

update_model(old) ==
    LET a1 == reaction_loop(EmptyAcc, old.reaction)
        a2 == metabolite_loop(a1, old.metabolite)
    IN IF a2.status = "ok"
       THEN [status |-> "ok",
             model |-> ModelNew(old.compartment, a2.reactions, a2.enzymes,
                                a2.enzyme_reactions, a2.metabolites,
                                a2.comp_metabolites, a2.allosteries,
                                a2.comp_inhibitions)]
       ELSE [status |-> a2.status]

(***************************************************************************)
(* write_new_model: the document as toml.load returns it after toml.dump.  *)
(* A dict is a function from its keys; toml writes no key whose value is   *)
(* None.  The ids of the join and modifier records are deleted by          *)
(* exclude_id, the enums are written by name (reaction_mech_to_name).      *)
(***************************************************************************)
\* one key of a dict, absent when the value is None
TomlKey(k, v) == IF v = PyNone THEN <<>> ELSE (k :> v)

dump_compartment(c) ==
    TomlKey("id", c.id) @@ TomlKey("name", c.name) @@ [volume |-> c.volume]

dump_reaction(r) ==
    TomlKey("id", r.id) @@ TomlKey("name", r.name)
    @@ [mechanism |-> ReactionMechanismName(r.mechanism),
        stoichiometry |-> r.stoichiometry,
        water_stoichiometry |-> r.water_stoichiometry,
        transported_charge |-> r.transported_charge]

dump_enzyme(e) ==
    TomlKey("id", e.id) @@ TomlKey("name", e.name) @@ [subunits |-> e.subunits]

dump_metabolite(m) ==
    TomlKey("id", m.id) @@ TomlKey("name", m.name)
    @@ TomlKey("inchi_key", m.inchi_key)

dump_allostery(a) ==
    [a EXCEPT !.modification_type = ModificationTypeName(@)]

write_new_model(m) ==
    [compartment |-> [i \in DOMAIN m.compartment |-> dump_compartment(m.compartment[i])],
     reaction |-> [i \in DOMAIN m.reaction |-> dump_reaction(m.reaction[i])],
     enzyme |-> [i \in DOMAIN m.enzyme |-> dump_enzyme(m.enzyme[i])],
     enzyme_reaction |-> m.enzyme_reaction,
     metabolite |-> [i \in DOMAIN m.metabolite |-> dump_metabolite(m.metabolite[i])],
     metabolite_in_compartment |-> m.metabolite_in_compartment,
     allostery |-> [i \in DOMAIN m.allostery |-> dump_allostery(m.allostery[i])],
     competitive_inhibition |-> m.competitive_inhibition]

(***************************************************************************)
(* read_old_maud: ModelPrev.parse_obj on a loaded document.  A record      *)
(* class accepts a dict that has every field without a default; other keys *)
(* of the dict are ignored.                                                *)
(***************************************************************************)
HasKeys(d, keys) == keys \subseteq DOMAIN d

Compartment_required == {"id", "name", "volume"}
MetabolitePrev_required == {"metabolite", "compartment", "balanced"}
ModifierPrev_required == {"modifier_type", "mic_id"}
EnzymePrev_required == {"id", "name"}
\* mutant: the nested enzyme list is not required of an old reaction
ReactionPrev_required_no_enzyme == {"id", "name", "stoichiometry"}
ReactionPrev_required == {"id", "name", "stoichiometry", "enzyme"}
DrainPrev_required == {"id", "name", "stoichiometry"}

Compartment_valid(d) == HasKeys(d, Compartment_required)

MetabolitePrev_valid(d) == HasKeys(d, MetabolitePrev_required)

ModifierPrev_valid(d) == HasKeys(d, ModifierPrev_required)

EnzymePrev_valid(d) ==
    /\ HasKeys(d, EnzymePrev_required)
    /\ "modifier" \in DOMAIN d => \A i \in DOMAIN d.modifier : ModifierPrev_valid(d.modifier[i])

ReactionPrev_valid(d) ==
    /\ HasKeys(d, ReactionPrev_required)
    /\ "enzyme" \in DOMAIN d => \A i \in DOMAIN d.enzyme : EnzymePrev_valid(d.enzyme[i])

DrainPrev_valid(d) == HasKeys(d, DrainPrev_required)

\* metabolite has the alias "metabolite-in-compartment" and, by
\* allow_population_by_field_name, may also be given under its own name.
ModelPrev_valid(d) ==
    /\ "compartment" \in DOMAIN d
    /\ \A i \in DOMAIN d.compartment : Compartment_valid(d.compartment[i])
    /\ "reaction" \in DOMAIN d
    /\ \A i \in DOMAIN d.reaction : ReactionPrev_valid(d.reaction[i])
    /\ \/ /\ "metabolite-in-compartment" \in DOMAIN d
          /\ \A i \in DOMAIN d["metabolite-in-compartment"] : MetabolitePrev_valid(d["metabolite-in-compartment"][i])
       \/ /\ "metabolite-in-compartment" \notin DOMAIN d
          /\ "metabolite" \in DOMAIN d
          /\ \A i \in DOMAIN d.metabolite : MetabolitePrev_valid(d.metabolite[i])
    /\ "drain" \in DOMAIN d => \A i \in DOMAIN d.drain : DrainPrev_valid(d.drain[i])

read_old_maud(d) ==
    IF ModelPrev_valid(d) THEN [status |-> "ok"] ELSE [status |-> "ValidationError"]

(***************************************************************************)
(* Old-schema documents explored.  Each family varies one list of the      *)
(* document up to its bound and keeps the others short.                    *)
(***************************************************************************)
SeqsUpTo(S, n) == UNION {[1..k -> S] : k \in 0..n}

NAME == <<"n">>

MechanismStrings ==
    {<<"r", "e", "v", "e", "r", "s", "i", "b", "l", "e", "_", "m", "o", "d", "u", "l", "a", "r", "_", "r", "a", "t", "e", "_", "l", "a", "w">>,
     <<"i", "r", "r", "e", "v", "e", "r", "s", "i", "b", "l", "e", "_", "m", "o", "d", "u", "l", "a", "r", "_", "r", "a", "t", "e", "_", "l", "a", "w">>,
     <<"r", "e", "v", "e", "r", "s", "i", "b", "l", "e">>,
     <<"r", "e", "v", "e", "r", "s", "i", "b", "l">>,
     <<"d", "r", "a", "i", "n">>}

DefaultMechanism == <<"r", "e", "v", "e", "r", "s", "i", "b", "l", "e", "_", "m", "o", "d", "u", "l", "a", "r", "_", "r", "a", "t", "e", "_", "l", "a", "w">>

Item(k, v) == [k |-> k, v |-> v]

StoichiometryDicts ==
    {<<Item(<<"a", "_", "c">>, -1), Item(<<"b", "_", "c">>, 1)>>,
     <<Item(<<"a", "_", "c">>, 0)>>,
     <<Item(<<"a", "_", "b", "_", "c">>, -1), Item(<<"a", "b", "_", "c">>, 2)>>,
     <<Item(<<"a", "_", "1">>, 1)>>}

DefaultStoichiometry ==
    <<Item(<<"a", "_", "c">>, -1), Item(<<"b", "_", "c">>, 1)>>

ReactionIds == {<<"r", "_", "1">>, <<"r", "1">>, <<"r", "_", "2">>}
EnzymeIds == {<<"e", "_", "1">>, <<"e", "1">>, <<"f">>}
MicIds == {<<"x", "_", "c", "_", "c">>, <<"a", "b", "_", "e">>}
MetaboliteIds == {<<"a", "_", "b">>, <<"a", "b">>, <<"m">>}
CompartmentIds == {<<"c">>, <<"e">>}

ModifierTypes ==
    {"competitive_inhibitor", "allosteric_inhibitor", "allosteric_activator",
     "phosphorylation"}

ModifierPrevs == [modifier_type : ModifierTypes, mic_id : MicIds]

CompartmentOf(id) == [id |-> id, name |-> NAME, volume |-> 1]

EnzymePrevOf(id, subunits, modifier) ==
    [id |-> id, name |-> NAME, subunits |-> subunits, modifier |-> modifier]

ReactionPrevOf(id, mechanism, stoichiometry, enzyme) ==
    [id |-> id, name |-> NAME, mechanism |-> mechanism,
     stoichiometry |-> stoichiometry, enzyme |-> enzyme,
     water_stoichiometry |-> 0, transported_charge |-> 0]

MetabolitePrevs ==
    [id : MetaboliteIds, compartment : CompartmentIds, balanced : BOOLEAN,
     name : {PyNone}, metabolite_inchi_key : {PyNone}]

ModelPrevOf(compartment, reaction, metabolite) ==
    [compartment |-> compartment, reaction |-> reaction, metabolite |-> metabolite]

DefaultCompartments == <<CompartmentOf(<<"c">>), CompartmentOf(<<"e">>)>>

DefaultEnzyme == EnzymePrevOf(<<"e", "_", "1">>, 2, {})

\* the compartment list varies
CompartmentFamily ==
    {ModelPrevOf(cl, <<>>, <<>>) :
        cl \in {<<>>, <<CompartmentOf(<<"c">>)>>,
                <<CompartmentOf(<<"c", "_", "1">>)>>}}

\* the modifier list of one enzyme varies
ModifierFamily ==
    {ModelPrevOf(DefaultCompartments,
                 <<ReactionPrevOf(<<"r", "_", "1">>, DefaultMechanism, DefaultStoichiometry,
                                  <<EnzymePrevOf(<<"e", "_", "1">>, 2, {ml})>>)>>,
                 <<>>) :
        ml \in SeqsUpTo(ModifierPrevs, MaxModifiers)}

\* the enzyme list of one reaction varies
EnzymePrevs ==
    {EnzymePrevOf(id, su, mo) :
        id \in EnzymeIds, su \in {0, 2},
        mo \in {{}, {<<[modifier_type |-> "competitive_inhibitor",
                        mic_id |-> <<"x", "_", "c", "_", "c">>]>>}}}

EnzymeFamily ==
    {ModelPrevOf(DefaultCompartments,
                 <<ReactionPrevOf(<<"r", "_", "1">>, DefaultMechanism, DefaultStoichiometry, el)>>,
                 <<>>) :
        el \in SeqsUpTo(EnzymePrevs, MaxEnzymes)}

\* the reaction list varies
ReactionPrevs ==
    {ReactionPrevOf(<<"r", "_", "1">>, me, DefaultStoichiometry, <<DefaultEnzyme>>) :
        me \in MechanismStrings}
    \cup {ReactionPrevOf(id, DefaultMechanism, st, <<>>) :
            id \in ReactionIds, st \in StoichiometryDicts}

ReactionFamily ==
    {ModelPrevOf(DefaultCompartments, rl, <<>>) :
        rl \in SeqsUpTo(ReactionPrevs, MaxReactions)}

\* the metabolite-in-compartment list varies, with and without a reaction
MetaboliteFamily ==
    {ModelPrevOf(DefaultCompartments, rl, ml) :
        rl \in {<<>>, <<ReactionPrevOf(<<"r", "_", "1">>, DefaultMechanism,
                                       DefaultStoichiometry, <<DefaultEnzyme>>)>>},
        ml \in SeqsUpTo(MetabolitePrevs, MaxMetabolites)}

OldModels ==
    CompartmentFamily \cup ModifierFamily \cup EnzymeFamily
    \cup ReactionFamily \cup MetaboliteFamily

(***************************************************************************)
(* The model migration run: update_model_toml, and the written document    *)
(* given to read_old_maud again.                                           *)
(***************************************************************************)
NotRun == [status |-> "not run"]

Init ==
    /\ pc = "start"
    /\ old_model \in OldModels
    /\ new_model = NotRun
    /\ new_toml = NotRun
    /\ reread = NotRun
    /\ priors_df = <<>>
    /\ model = NotRun
    /\ priors_out = NotRun
    /\ data_dir = NotRun
    /\ outdir = {}

UpdateModel ==
    /\ pc = "start"
    /\ new_model' = update_model(old_model)
    /\ pc' = IF new_model'.status = "ok" THEN "migrated" ELSE "failed"
    /\ UNCHANGED <<old_model, new_toml, reread, priors_df, model, priors_out,
                 data_dir, outdir>>

WriteNewModel ==
    /\ pc = "migrated"
    /\ new_toml' = [status |-> "written", doc |-> write_new_model(new_model.model)]
    /\ pc' = "written"
    /\ UNCHANGED <<old_model, new_model, reread, priors_df, model, priors_out,
                 data_dir, outdir>>

ReadOldMaud ==
    /\ pc = "written"
    /\ reread' = read_old_maud(new_toml.doc)
    /\ pc' = "reread"
    /\ UNCHANGED <<old_model, new_model, new_toml, priors_df, model, priors_out,
                 data_dir, outdir>>

Next == UpdateModel \/ WriteNewModel \/ ReadOldMaud

Spec == Init /\ [][Next]_vars

(***************************************************************************)
(* Properties of the model migration.  They are stated with their own      *)
(* definitions of "separators removed", "prefix" and "position in the      *)
(* output", not with the operators of update_model.                        *)
(***************************************************************************)
Migrated == new_model.status = "ok"

NoSep(s) == SelectSeq(s, LAMBDA ch : ch # "_")

HasSep(s) == \E i \in DOMAIN s : s[i] = "_"

AllButLastTwo(s) == [i \in 1..(IF Len(s) > 2 THEN Len(s) - 2 ELSE 0) |-> s[i]]

ReversibleWord == <<"r", "e", "v", "e", "r", "s", "i", "b", "l", "e">>

HasReversiblePrefix(s) ==
    /\ Len(s) >= Len(ReversibleWord)
    /\ \A i \in DOMAIN ReversibleWord : s[i] = ReversibleWord[i]

\* the list an enzyme's modifier field holds ({} is None)
ModifierList(enz) == IF enz.modifier = {} THEN <<>> ELSE CHOOSE l \in enz.modifier : TRUE

\* positions <<i, j>> of the enzymes and <<i, j, k>> of the modifiers of a document
EnzymePositions(old) ==
    UNION {{<<i, j>> : j \in DOMAIN old.reaction[i].enzyme} :
              i \in DOMAIN old.reaction}

ModifierPositions(old) ==
    UNION {{<<p[1], p[2], k>> :
               k \in DOMAIN ModifierList(old.reaction[p[1]].enzyme[p[2]])} :
              p \in EnzymePositions(old)}

\* lexicographic order of positions of equal length
RECURSIVE Before(_, _)
Before(p, q) ==
    /\ p # <<>>
    /\ \/ Head(p) < Head(q)
       \/ Head(p) = Head(q) /\ Before(Tail(p), Tail(q))

\* the place of position p among the positions P, counted from 1
Rank(p, P) == 1 + Cardinality({q \in P : Before(q, p)})

ModifierAt(old, q) == ModifierList(old.reaction[q[1]].enzyme[q[2]])[q[3]]

CompetitivePositions(old) ==
    {q \in ModifierPositions(old) :
        ModifierAt(old, q).modifier_type = "competitive_inhibitor"}

\* C1: for each canonical metabolite id c the output holds exactly one
\* Metabolite with id c, and the metabolite_in_compartment list holds exactly
\* one record per distinct (canonical id, compartment) pair of the old
\* entries, with the entry's compartment id and balanced flag.
C1_OneRecordPerPair ==
    Migrated =>
        LET old == old_model.metabolite
            mets == new_model.model.metabolite
            mics == new_model.model.metabolite_in_compartment
        IN /\ \A i \in DOMAIN old :
                Cardinality({j \in DOMAIN mets : mets[j].id = NoSep(old[i].id)}) = 1
           /\ \A j \in DOMAIN mets : \E i \in DOMAIN old : mets[j].id = NoSep(old[i].id)
           /\ \A i \in DOMAIN old :
                Cardinality({j \in DOMAIN mics :
                                /\ mics[j].metabolite_id = NoSep(old[i].id)
                                /\ mics[j].compartment_id = old[i].compartment}) = 1
           /\ \A j \in DOMAIN mics : \E i \in DOMAIN old :
                /\ mics[j].metabolite_id = NoSep(old[i].id)
                /\ mics[j].compartment_id = old[i].compartment
                /\ mics[j].balanced = old[i].balanced

\* C6: every Reaction that was constructed has only non-zero stoichiometry
\* coefficients (a zero coefficient is a validation error).
C6_NonZeroStoichiometry ==
    Migrated =>
        \A i \in DOMAIN new_model.model.reaction :
            \A n \in DOMAIN new_model.model.reaction[i].stoichiometry :
                new_model.model.reaction[i].stoichiometry[n].v # 0

\* C7: no id of a Reaction, Enzyme, Metabolite or Compartment of the
\* returned document contains the separator.
C7_NoSeparatorInIds ==
    Migrated =>
        \A list \in {new_model.model.reaction, new_model.model.enzyme,
                     new_model.model.metabolite, new_model.model.compartment} :
            \A i \in DOMAIN list : ~HasSep(list[i].id)

\* C8: the competitive_inhibition list holds exactly one record per
\* competitive_inhibitor modifier, in document order, with the stripped ids
\* of the enclosing enzyme and reaction and with metabolite_id the mic_id
\* without its last two characters and without separators ("x_c_c" gives "xc").
C8_CompetitiveInhibition ==
    Migrated =>
        LET P == CompetitivePositions(old_model)
            ci == new_model.model.competitive_inhibition
        IN /\ Len(ci) = Cardinality(P)
           /\ \A q \in P :
                LET rec == ci[Rank(q, P)]
                    reac == old_model.reaction[q[1]]
                    enz == reac.enzyme[q[2]]
                    mic == ModifierAt(old_model, q).mic_id
                IN /\ rec.enzyme_id = NoSep(enz.id)
                   /\ rec.reaction_id = NoSep(reac.id)
                   /\ rec.metabolite_id = NoSep(AllButLastTwo(mic))
                   /\ mic = <<"x", "_", "c", "_", "c">> => rec.metabolite_id = <<"x", "c">>

C8_Witness ==
    /\ Migrated
    /\ \E q \in CompetitivePositions(old_model) :
            /\ ModifierAt(old_model, q).mic_id = <<"x", "_", "c", "_", "c">>
            /\ \E o \in ModifierPositions(old_model) :
                    /\ Before(o, q)
                    /\ ModifierAt(old_model, o).modifier_type # "competitive_inhibitor"
            /\ new_model.model.competitive_inhibition[1].metabolite_id = <<"x", "c">>

\* C9: the mechanism of each migrated Reaction is reversible Michaelis-Menten
\* exactly when the old mechanism string starts with "reversible" and
\* irreversible Michaelis-Menten otherwise; each nested enzyme yields, in
\* document order, an Enzyme with the stripped id and the same subunits and an
\* EnzymeReaction joining the stripped enzyme id to the stripped reaction id.
C9_MechanismAndEnzymes ==
    Migrated =>
        LET P == EnzymePositions(old_model)
            m == new_model.model
        IN /\ Len(m.reaction) = Len(old_model.reaction)
           /\ \A i \in DOMAIN old_model.reaction :
                m.reaction[i].mechanism =
                    IF HasReversiblePrefix(old_model.reaction[i].mechanism)
                    THEN REVERSIBLE_MICHAELIS_MENTEN
                    ELSE IRREVERSIBLE_MICHAELIS_MENTEN
           /\ Len(m.enzyme) = Cardinality(P)
           /\ Len(m.enzyme_reaction) = Cardinality(P)
           /\ \A p \in P :
                LET reac == old_model.reaction[p[1]]
                    enz == reac.enzyme[p[2]]
                IN /\ m.enzyme[Rank(p, P)].id = NoSep(enz.id)
                   /\ m.enzyme[Rank(p, P)].subunits = enz.subunits
                   /\ m.enzyme_reaction[Rank(p, P)] =
                        [enzyme_id |-> NoSep(enz.id), reaction_id |-> NoSep(reac.id)]

C9_Witness ==
    /\ Migrated
    /\ \E i \in DOMAIN old_model.reaction :
            /\ HasReversiblePrefix(old_model.reaction[i].mechanism)
            /\ new_model.model.reaction[i].mechanism = REVERSIBLE_MICHAELIS_MENTEN
    /\ \E i \in DOMAIN old_model.reaction :
            /\ old_model.reaction[i].mechanism = <<"i", "r", "r", "e", "v", "e", "r", "s", "i", "b", "l", "e", "_", "m", "o", "d", "u", "l", "a", "r", "_", "r", "a", "t", "e", "_", "l", "a", "w">>
            /\ new_model.model.reaction[i].mechanism = IRREVERSIBLE_MICHAELIS_MENTEN
            /\ old_model.reaction[i].enzyme # <<>>
    /\ new_model.model.enzyme_reaction # <<>>

\* C10 as claimed: every written new-schema document is rejected by the
\* old-schema reader.
C10_AlwaysRejected == pc = "reread" => reread.status = "ValidationError"

\* C10 as amended: a written new-schema document is rejected by the
\* old-schema reader exactly when it has at least one reaction or at least
\* one metabolite; a document with neither is accepted.
C10_RejectedUnlessEmpty ==
    pc = "reread" =>
        (reread.status = "ValidationError"
            <=> (new_model.model.reaction # <<>> \/ new_model.model.metabolite # <<>>))

C10_Witness ==
    /\ pc = "reread"
    /\ reread.status = "ValidationError"
    /\ new_model.model.reaction # <<>>
    /\ new_model.model.metabolite = <<>>

\* C11: the reactions of the returned document are the old reactions in
\* their order, one each, and the id of each is the old id without any
\* separator.
C11_ReactionIds ==
    Migrated =>
        /\ Len(new_model.model.reaction) = Len(old_model.reaction)
        /\ \A i \in DOMAIN old_model.reaction :
               /\ new_model.model.reaction[i].id = NoSep(old_model.reaction[i].id)
               /\ ~HasSep(new_model.model.reaction[i].id)

C11_Witness ==
    /\ Migrated
    /\ Len(old_model.reaction) = 2
    /\ old_model.reaction[1].id = <<"r", "_", "2">>
    /\ old_model.reaction[2].id = <<"r", "_", "1">>
    /\ new_model.model.reaction[1].id = <<"r", "2">>
    /\ new_model.model.reaction[2].id = <<"r", "1">>

\* the key of a stoichiometry entry as claimed: every separator removed but
\* one that stands right before a final lowercase letter
IsSuffixSeparator(k, i) ==
    /\ i = Len(k) - 1
    /\ k[i] = "_"
    /\ k[Len(k)] \in LowerCase

KeptPositions(k) == {i \in DOMAIN k : k[i] # "_" \/ IsSuffixSeparator(k, i)}

ClaimedKey(k) ==
    [n \in 1..Cardinality(KeptPositions(k)) |->
        k[CHOOSE i \in KeptPositions(k) :
              Cardinality({j \in KeptPositions(k) : j < i}) = n - 1]]

\* C13: the stoichiometry of each migrated Reaction has as many entries as
\* the old one, and every old entry (k, v) is in it as (stripped k, v).
C13_StoichiometryCarriedOver ==
    Migrated =>
        \A i \in DOMAIN old_model.reaction :
            LET old == old_model.reaction[i].stoichiometry
                new == new_model.model.reaction[i].stoichiometry
            IN /\ Len(new) = Len(old)
               /\ \A n \in DOMAIN old : \E j \in DOMAIN new :
                      /\ new[j].k = ClaimedKey(old[n].k)
                      /\ new[j].v = old[n].v

\* the modifiers whose tag is neither competitive_inhibitor nor allosteric
PhosphorylationPositions(old) ==
    {q \in ModifierPositions(old) :
        ModifierAt(old, q).modifier_type
            \notin {"competitive_inhibitor", "allosteric_inhibitor", "allosteric_activator"}}

AllostericPositions(old) ==
    {q \in ModifierPositions(old) :
        ModifierAt(old, q).modifier_type \in {"allosteric_inhibitor", "allosteric_activator"}}

\* C14: a phosphorylation modifier contributes no record: the allostery
\* list has one record per allosteric modifier and the competitive_inhibition
\* list one per competitive_inhibitor modifier, and nothing else.
C14_PhosphorylationDropped ==
    Migrated =>
        /\ Len(new_model.model.allostery)
               = Cardinality(AllostericPositions(old_model))
        /\ Len(new_model.model.competitive_inhibition)
               = Cardinality(CompetitivePositions(old_model))

\* C15: every Allostery and every CompetitiveInhibition record of the
\* returned document has compartment_id "c", whatever the suffix of mic_id.
C15_CompartmentIsC ==
    Migrated =>
        /\ \A i \in DOMAIN new_model.model.allostery :
               new_model.model.allostery[i].compartment_id = <<"c">>
        /\ \A i \in DOMAIN new_model.model.competitive_inhibition :
               new_model.model.competitive_inhibition[i].compartment_id = <<"c">>

C15_Witness ==
    /\ Migrated
    /\ \E q \in CompetitivePositions(old_model) :
           ModifierAt(old_model, q).mic_id = <<"a", "b", "_", "e">>
    /\ \E q \in AllostericPositions(old_model) :
           ModifierAt(old_model, q).mic_id = <<"a", "b", "_", "e">>
    /\ new_model.model.allostery # <<>>
    /\ new_model.model.competitive_inhibition # <<>>

(***************************************************************************)
(* update_priors, expanded-column shape.  The table is the sequence of its *)
(* rows; a row carries its pandas index.  The columns modelled are the     *)
(* ones the row filter and the reaction lookup read and write: parameter,  *)
(* enzyme and reaction (renamed from parameter_type, enzyme_id, drain_id). *)
(* The experiment and metabolite columns are taken to hold strings.        *)
(***************************************************************************)
isinstance_str(x) == x # NaN

\* mutant: the last matching join is returned
query_lookup_last(query_id, m) ==
    IF ~isinstance_str(query_id) THEN [status |-> "AttributeError"]
    ELSE LET enz_id == replace_sep(query_id)
             hits == {i \in DOMAIN m.enzyme_reaction :
                         m.enzyme_reaction[i].enzyme_id = enz_id}
         IN IF hits = {} THEN [status |-> "StopIteration"]
            ELSE [status |-> "ok",
                  value |-> m.enzyme_reaction[
                                CHOOSE i \in hits : \A j \in hits : j <= i].reaction_id]

\* next(enz_reac.reaction_id for enz_reac in joins if enz_reac.enzyme_id == enz_id)
RECURSIVE next_match(_, _)
next_match(joins, enz_id) ==
    IF joins = <<>> THEN [status |-> "StopIteration"]
    ELSE IF Head(joins).enzyme_id = enz_id
         THEN [status |-> "ok", value |-> Head(joins).reaction_id]
         ELSE next_match(Tail(joins), enz_id)

\* query_id.replace raises AttributeError on a value that is no string
query_lookup(query_id, m) ==
    IF ~isinstance_str(query_id) THEN [status |-> "AttributeError"]
    ELSE next_match(m.enzyme_reaction, replace_sep(query_id))

\* mutant: a join counts whatever its reaction_id
is_valid_enzyme_any_join(enzyme_id, m) ==
    /\ isinstance_str(enzyme_id)
    /\ \E i \in DOMAIN m.enzyme_reaction :
           m.enzyme_reaction[i].enzyme_id = replace_sep(enzyme_id)

\* mutant: every enzyme id that is a string counts as valid
is_valid_enzyme_any_str(enzyme_id, m) == isinstance_str(enzyme_id)

\* any(enz_reac.reaction_id for ... if enz_reac.enzyme_id == enz_id): a
\* reaction_id counts when it is not the empty string
is_valid_enzyme(enzyme_id, m) ==
    IF ~isinstance_str(enzyme_id) THEN FALSE
    ELSE LET enz_id == replace_sep(enzyme_id)
         IN \E i \in DOMAIN m.enzyme_reaction :
                /\ m.enzyme_reaction[i].enzyme_id = enz_id
                /\ m.enzyme_reaction[i].reaction_id # <<>>

\* Series.str.replace(old, new) on the parameter column, whose values here
\* never hold old as a proper part
parameter_replace(p, old, new) == IF p = old THEN new ELSE p

\* Series.str.replace("_", "") leaves NaN as it is
series_replace_sep(x) == IF isinstance_str(x) THEN replace_sep(x) ELSE x

\* .str on a column without any string (read as float64) raises AttributeError
str_accessor_ok(df) == df = <<>> \/ \E i \in DOMAIN df : isinstance_str(df[i].enzyme_id)

\* the table after the renames and replacements of lines 62 to 86
renamed(df) ==
    [i \in DOMAIN df |->
        [index |-> i - 1,
         parameter |->
             parameter_replace(
                 parameter_replace(df[i].parameter_type, "diss_t", "dissociation_constant"),
                 "conc_phos", "conc_pme"),
         enzyme |-> series_replace_sep(df[i].enzyme_id),
         reaction |-> df[i].drain_id]]

\* make sure that every enzyme is actually in the final config
row_is_kept(row, m) ==
    \/ row.parameter \notin {"kcat", "conc_enzyme"}
    \/ is_valid_enzyme(row.enzyme, m)

RECURSIVE filter_rows(_, _)
filter_rows(df, m) ==
    IF df = <<>> THEN <<>>
    ELSE IF row_is_kept(Head(df), m)
         THEN <<Head(df)>> \o filter_rows(Tail(df), m)
         ELSE filter_rows(Tail(df), m)

\* add reaction ids: the lookup is applied to the kcat and ki rows in order
\* and the first lookup that raises ends the call
RECURSIVE add_reaction_ids(_, _, _)
add_reaction_ids(df, m, done) ==
    IF df = <<>> THEN [status |-> "ok", df |-> done]
    ELSE IF Head(df).parameter \in {"kcat", "ki"}
         THEN LET found == query_lookup(Head(df).enzyme, m)
              IN IF found.status # "ok" THEN [status |-> found.status]
                 ELSE add_reaction_ids(
                          Tail(df), m,
                          Append(done, [Head(df) EXCEPT !.reaction = found.value]))
         ELSE add_reaction_ids(Tail(df), m, Append(done, Head(df)))

update_priors(df, m) ==
    IF ~str_accessor_ok(df) THEN [status |-> "AttributeError"]
    ELSE LET looked_up == add_reaction_ids(filter_rows(renamed(df), m), m, <<>>)
         IN IF looked_up.status # "ok" THEN looked_up
            ELSE IF \E i \in DOMAIN looked_up.df : looked_up.df[i].parameter = "conc_phos"
                 THEN [status |-> "NotImplementedError"]
                 ELSE looked_up

(***************************************************************************)
(* Prior tables and models explored.                                       *)
(***************************************************************************)
ParameterTypes == {"kcat", "ki", "conc_enzyme", "conc_phos", "diss_t"}

PriorEnzymeIds == {<<"e", "_", "1">>, <<"g">>, NaN}

PriorRows ==
    [parameter_type : ParameterTypes, enzyme_id : PriorEnzymeIds, drain_id : {NaN}]
    \cup {[parameter_type |-> "drain", enzyme_id |-> NaN,
           drain_id |-> <<"d", "_", "1">>]}

ModelWithJoins(joins) == ModelNew(<<>>, <<>>, <<>>, joins, <<>>, <<>>, <<>>, <<>>)

PriorModels ==
    {ModelWithJoins(<<EnzymeReaction(<<"f">>, <<"r", "3">>),
                      EnzymeReaction(<<"e", "1">>, <<"r", "1">>),
                      EnzymeReaction(<<"e", "1">>, <<"r", "2">>)>>),
     ModelWithJoins(<<EnzymeReaction(<<"e", "1">>, <<>>)>>),
     ModelWithJoins(<<EnzymeReaction(<<"e", "1">>, <<>>),
                      EnzymeReaction(<<"e", "1">>, <<"r", "2">>)>>)}

InitPriors ==
    /\ pc = "priors"
    /\ priors_df \in SeqsUpTo(PriorRows, MaxRows)
    /\ model \in PriorModels
    /\ priors_out = NotRun
    /\ old_model = NotRun
    /\ new_model = NotRun
    /\ new_toml = NotRun
    /\ reread = NotRun
    /\ data_dir = NotRun
    /\ outdir = {}

UpdatePriors ==
    /\ pc = "priors"
    /\ priors_out' = update_priors(priors_df, model)
    /\ pc' = IF priors_out'.status = "ok" THEN "priors done" ELSE "priors failed"
    /\ UNCHANGED <<old_model, new_model, new_toml, reread, priors_df, model,
                 data_dir, outdir>>

NextPriors == UpdatePriors

SpecPriors == InitPriors /\ [][NextPriors]_vars

(***************************************************************************)
(* Properties of the prior-table migration.                                *)
(***************************************************************************)
PriorsRan == priors_out.status # "not run"

PriorsOk == priors_out.status = "ok"

\* the joins of the model whose enzyme_id is the stripped enzyme id e
Joins(e) ==
    {i \in DOMAIN model.enzyme_reaction : model.enzyme_reaction[i].enzyme_id = NoSep(e)}

HasEnzymeId(row) == row.enzyme_id # NaN

\* an input row of one of the given types whose enzyme id matches no join
Unmatched(row, types) ==
    /\ row.parameter_type \in types
    /\ HasEnzymeId(row)
    /\ Joins(row.enzyme_id) = {}

\* the input row an output row comes from
InputOf(out) == priors_df[out.index + 1]

\* C2: in the output, the reaction of a kcat or ki row whose stripped enzyme
\* id matches a join of the model is the reaction_id of the first such join.
C2_ReactionOfFirstJoin ==
    PriorsOk =>
        \A n \in DOMAIN priors_out.df :
            LET out == priors_out.df[n]
                row == InputOf(out)
            IN (/\ row.parameter_type \in {"kcat", "ki"}
                /\ HasEnzymeId(row)
                /\ Joins(row.enzyme_id) # {})
               => \E i \in Joins(row.enzyme_id) :
                    /\ \A j \in Joins(row.enzyme_id) : i <= j
                    /\ out.reaction = model.enzyme_reaction[i].reaction_id

C2_Witness ==
    /\ PriorsOk
    /\ \E n \in DOMAIN priors_out.df :
            /\ InputOf(priors_out.df[n]).parameter_type = "kcat"
            /\ InputOf(priors_out.df[n]).enzyme_id = <<"e", "_", "1">>
            /\ Cardinality(Joins(<<"e", "_", "1">>)) = 2
            /\ priors_out.df[n].reaction = <<"r", "1">>
    /\ \E n \in DOMAIN priors_out.df :
            InputOf(priors_out.df[n]).parameter_type = "ki"

\* C3 as claimed: a kcat or ki row whose stripped enzyme id matches no join
\* makes the call fail with the lookup error.
C3_UnmatchedFails ==
    (PriorsRan /\ \E i \in DOMAIN priors_df : Unmatched(priors_df[i], {"kcat", "ki"}))
        => priors_out.status = "StopIteration"

\* a ki row without an enzyme id stands before every unmatched ki row
KiWithoutIdFirst ==
    \E i \in DOMAIN priors_df :
        /\ priors_df[i].parameter_type = "ki"
        /\ ~HasEnzymeId(priors_df[i])
        /\ \A j \in DOMAIN priors_df : Unmatched(priors_df[j], {"ki"}) => i < j

\* C3 as amended: a ki row whose stripped enzyme id matches no join makes
\* the call fail without an output table, with the lookup error, or with
\* AttributeError when a ki row without enzyme id comes first; the lookup
\* error has no other cause, so an unmatched kcat row never fails the call.
C3_UnmatchedKiFails ==
    PriorsRan =>
        /\ (\E i \in DOMAIN priors_df : Unmatched(priors_df[i], {"ki"}))
            => priors_out.status =
                   IF KiWithoutIdFirst THEN "AttributeError" ELSE "StopIteration"
        /\ priors_out.status = "StopIteration"
            => \E i \in DOMAIN priors_df : Unmatched(priors_df[i], {"ki"})

C3_Witness ==
    /\ priors_out.status = "StopIteration"
    /\ \E i \in DOMAIN priors_df : Unmatched(priors_df[i], {"ki"})
    /\ \E i \in DOMAIN priors_df : Unmatched(priors_df[i], {"kcat"})

\* the rows the validity filter is claimed to drop
Dropped(row) ==
    /\ row.parameter_type \in {"kcat", "conc_enzyme"}
    /\ \/ ~HasEnzymeId(row)
       \/ \A i \in Joins(row.enzyme_id) : model.enzyme_reaction[i].reaction_id = <<>>

\* C4: the output holds exactly the input rows that are not kcat or
\* conc_enzyme rows with an enzyme id that is no string or matches no join
\* with a non-empty reaction_id, in their input order.
C4_ValidityFilter ==
    PriorsOk =>
        /\ {priors_out.df[n].index + 1 : n \in DOMAIN priors_out.df}
               = {i \in DOMAIN priors_df : ~Dropped(priors_df[i])}
        /\ \A n1, n2 \in DOMAIN priors_out.df :
               n1 < n2 => priors_out.df[n1].index < priors_out.df[n2].index

C4_Witness ==
    /\ PriorsOk
    /\ Len(priors_out.df) = 2
    /\ Dropped(priors_df[2])
    /\ priors_df[2].parameter_type = "conc_enzyme"
    /\ HasEnzymeId(priors_df[2])
    /\ priors_df[1].parameter_type = "kcat"

\* C5: a table with a conc_phos row makes the call raise NotImplementedError.
C5_ConcPhosNotImplemented ==
    (PriorsRan /\ \E i \in DOMAIN priors_df : priors_df[i].parameter_type = "conc_phos")
        => priors_out.status = "NotImplementedError"

(***************************************************************************)
(* cli_entry of the directory driver: the steps of one run, in the order   *)
(* of the code.  A step that raises ends the run; a step that succeeds     *)
(* leaves its file in the output directory.  config.toml is taken to name  *)
(* the four files, and the model and priors files are taken to exist.      *)
(***************************************************************************)
\* what the run finds: do the measurements and biological-config files
\* exist, has config.toml an ode_config table, does it name dgf files and a
\* user_inits_file
DataDirs ==
    [measurements : BOOLEAN, biological_config : BOOLEAN, ode_config : BOOLEAN,
     dgf_mean_file : BOOLEAN, user_inits_file : BOOLEAN]

CliOldModels ==
    {ModelPrevOf(DefaultCompartments,
                 <<ReactionPrevOf(<<"r", "_", "1">>, DefaultMechanism,
                                  DefaultStoichiometry, el)>>,
                 <<>>) :
        el \in {<<>>} \cup {<<enz>> : enz \in EnzymePrevs}}

CliPriors == {<<>>} \cup {<<row>> : row \in PriorRows}

InitCli ==
    /\ pc = "cli model"
    /\ old_model \in CliOldModels
    /\ priors_df \in CliPriors
    /\ data_dir \in DataDirs
    /\ outdir = {}
    /\ new_model = NotRun
    /\ new_toml = NotRun
    /\ reread = NotRun
    /\ model = NotRun
    /\ priors_out = NotRun

\* model = update_model_toml(old_toml, new_toml)
CliUpdateModelToml ==
    /\ pc = "cli model"
    /\ new_model' = update_model(old_model)
    /\ IF new_model'.status = "ok"
       THEN /\ new_toml' = [status |-> "written",
                            doc |-> write_new_model(new_model'.model)]
            /\ model' = new_model'.model
            /\ outdir' = outdir \cup {"kinetic_model"}
            /\ pc' = "cli priors"
       ELSE /\ pc' = "cli failed"
            /\ UNCHANGED <<new_toml, model, outdir>>
    /\ UNCHANGED <<old_model, reread, priors_df, priors_out, data_dir>>

\* update_priors(pd.read_csv(old_priors), model).to_csv(new_priors, index=False)
CliUpdatePriors ==
    /\ pc = "cli priors"
    /\ priors_out' = update_priors(priors_df, model)
    /\ IF priors_out'.status = "ok"
       THEN outdir' = outdir \cup {"priors"} /\ pc' = "cli measurements"
       ELSE outdir' = outdir /\ pc' = "cli failed"
    /\ UNCHANGED <<old_model, new_model, new_toml, reread, priors_df, model, data_dir>>

\* update_measurements: pd.read_csv raises when the file is missing
CliUpdateMeasurements ==
    /\ pc = "cli measurements"
    /\ IF data_dir.measurements
       THEN outdir' = outdir \cup {"measurements"} /\ pc' = "cli biological_config"
       ELSE outdir' = outdir /\ pc' = "cli failed"
    /\ UNCHANGED <<old_model, new_model, new_toml, reread, priors_df, model,
                   priors_out, data_dir>>

\* update_biological_config: open raises when the file is missing
CliUpdateBiologicalConfig ==
    /\ pc = "cli biological_config"
    /\ IF data_dir.biological_config
       THEN outdir' = outdir \cup {"biological_config"} /\ pc' = "cli config"
       ELSE outdir' = outdir /\ pc' = "cli failed"
    /\ UNCHANGED <<old_model, new_model, new_toml, reread, priors_df, model,
                   priors_out, data_dir>>

\* update_config: config["ode_config"] raises KeyError before the new
\* config is opened for writing
CliUpdateConfig ==
    /\ pc = "cli config"
    /\ IF data_dir.ode_config
       THEN outdir' = outdir \cup {"config.toml"} /\ pc' = "cli other files"
       ELSE outdir' = outdir /\ pc' = "cli failed"
    /\ UNCHANGED <<old_model, new_model, new_toml, reread, priors_df, model,
                   priors_out, data_dir>>

\* update_dgf when config names dgf files, then copy_unaffected_files
CliOtherFiles ==
    /\ pc = "cli other files"
    /\ outdir' = outdir
                 \cup (IF data_dir.dgf_mean_file
                       THEN {"dgf_mean_file", "dgf_covariance_file"} ELSE {})
                 \cup (IF data_dir.user_inits_file THEN {"user_inits_file"} ELSE {})
    /\ pc' = "cli done"
    /\ UNCHANGED <<old_model, new_model, new_toml, reread, priors_df, model,
                   priors_out, data_dir>>

NextCli ==
    \/ CliUpdateModelToml
    \/ CliUpdatePriors
    \/ CliUpdateMeasurements
    \/ CliUpdateBiologicalConfig
    \/ CliUpdateConfig
    \/ CliOtherFiles

SpecCli == InitCli /\ [][NextCli]_vars

\* C12: in a run that aborts with an error no file has been written to the
\* output directory.
C12_NoPartialOutput == pc = "cli failed" => outdir = {}

=============================================================================
